---- MODULE Spec2Model ----
(***************************************************************************)
(* Model of package tracing of datakit-ebpf: the process filter            *)
(* (ProcessFilter: Filter, Delete, GetProcInfo over the live map           *)
(* Pid2ProcInfo and the deleted-PID LRU PidDeleted, guarded by one         *)
(* sync.RWMutex).                                                          *)
(*                                                                         *)
(* Three specifications share the same state and the same operators:       *)
(*   Spec       : NumThreads goroutines, every lock operation a step.      *)
(*   SpecSeq    : one caller, every call one step, enough PIDs to          *)
(*                overflow an LRU of two entries.                          *)
(*   SpecFilter : one caller, every call one step, the configuration       *)
(*                drawn from every rule set over the bounded names.        *)
(***************************************************************************)
EXTENDS Integers, Sequences, FiniteSets, TLC

(***************************************************************************)
(* Bounds of the model.                                                    *)
(***************************************************************************)
\* goroutines calling into the filter in Spec
NumThreads == 2
\* PIDs 1..NumPids are passed to the calls of Spec
NumPids == 2
\* PIDs 1..NumSeqPids are passed to the calls of SpecSeq
NumSeqPids == 3
\* PIDs 1..NumFilterPids are passed to the calls of SpecFilter
NumFilterPids == 1
\* MaxEntries of the LRU in Spec: lru.New(1024) scaled down so that the LRU
\* overflows
ThreadMaxEntries == 1
\* MaxEntries of the LRU in SpecSeq and SpecFilter
SeqMaxEntries == 2
\* bytes of a spanid.ID64, the 8 of uint64 scaled down; a spanid.ID128 has
\* twice as many
IdBytes == 2
\* bytes of the longest payload of which every content is tried
MaxPayload == 5

Threads == 1..NumThreads
Pids == 1..NumPids
SeqPids == 1..NumSeqPids
FilterPids == 1..NumFilterPids
\* the goroutine that calls in SpecSeq and SpecFilter
Caller == 1

\* process names, executable paths and environment variables of the inputs
Names == {"curl", "nginx"}
Paths == {"/usr/bin/curl"}
EnvKeys == {"DD_SERVICE", "OTEL_SERVICE_NAME"}
EnvVal == [k \in EnvKeys |-> IF k = "DD_SERVICE" THEN "dd-svc" ELSE "otel-svc"]
\* env map[string]string: the variables that are set, each with its value
Envs == {[k \in S |-> EnvVal[k]] : S \in SUBSET EnvKeys}
EmptyEnv == [k \in {} |-> ""]
\* map[string]bool over a set of keys
BoolMaps(K) == UNION {[S -> BOOLEAN] : S \in SUBSET K}
EmptyRule == [k \in {} |-> TRUE]

(***************************************************************************)
(* NewProcessFilter: the fields fixed at construction.  RulePath is always *)
(* the empty map.                                                          *)
(***************************************************************************)
NewProcessFilter(svcAssignEnv, ruleEnv, ruleProcessName, anyProcess, disable) ==
    [SvcAssignEnv    |-> svcAssignEnv,
     RuleEnv         |-> ruleEnv,
     RuleProcessName |-> ruleProcessName,
     RulePath        |-> {},
     AnyProcess      |-> anyProcess,
     Disable         |-> disable]

\* the ordered lists of service-assigning variables that are drawn
SvcAssignEnvs == {<<>>, <<"DD_SERVICE", "OTEL_SERVICE_NAME">>,
                  <<"OTEL_SERVICE_NAME", "DD_SERVICE">>}

\* every configuration over the bounded names (SpecFilter)
AllConfigs ==
    {NewProcessFilter(s, re, rn, a, d) :
        s \in SvcAssignEnvs, re \in BoolMaps(EnvKeys), rn \in BoolMaps(Names),
        a \in BOOLEAN, d \in BOOLEAN}

\* the configuration of Spec and SpecSeq: one admitted and one forbidden
\* process name
NameConfigs ==
    {NewProcessFilter(<<>>, EmptyRule, [n \in Names |-> n = "curl"], FALSE, FALSE)}

VARIABLES
    cfg,            \* the ProcessFilter's configuration fields
    Pid2ProcInfo,   \* live map: PID -> ProcSvcInfo, DOMAIN = the keys held
    PidDeleted,     \* lru.Cache: sequence of [key, value], front first
    maxEntries,     \* lru.Cache.MaxEntries
    rw,             \* sync.RWMutex: [w, writer: 0 or a thread; readers, blocked: sets]
    pc,             \* where each goroutine is in its call
    arg,            \* the arguments of each goroutine's call
    res,            \* the value its call is about to return
    seen,           \* history: atomic lookups of arg.pid since the call began
    lastFilter,     \* history: PID -> record of the most recent Filter on it
    delOrder,       \* history: PIDs held by the LRU, latest Delete first
    useOrder,       \* history: the same PIDs, latest Delete or LRU hit first
    lastAdd         \* history: what the Add of the Delete just run found and did

vars == <<cfg, Pid2ProcInfo, PidDeleted, maxEntries, rw, pc, arg, res, seen,
          lastFilter, delOrder, useOrder, lastAdd>>

(***************************************************************************)
(* Go maps as functions whose DOMAIN is the set of keys held.              *)
(***************************************************************************)
MapPut(m, k, v) == [x \in DOMAIN m \cup {k} |-> IF x = k THEN v ELSE m[x]]
MapDelete(m, k) == [x \in DOMAIN m \ {k} |-> m[x]]
EmptyMap == [x \in {} |-> 0]

(***************************************************************************)
(* github.com/golang/groupcache/lru as the filter uses it.  The cache is a *)
(* list of entries, most recently used at the front.                       *)
(***************************************************************************)
LruKeys(c) == {c[i].key : i \in 1..Len(c)}
LruIndex(c, k) == CHOOSE i \in 1..Len(c) : c[i].key = k
LruWithout(c, k) == SelectSeq(c, LAMBDA e : e.key # k)
LruValue(c, k) == c[LruIndex(c, k)].value
\* the key -> value content of the cache, whatever the order
LruContents(c) == [k \in LruKeys(c) |-> LruValue(c, k)]

\* fault: an overflowing Add that removes nothing
LruRemoveNothing(c) == c

\* Cache.RemoveOldest: drop the entry at the back of the list
LruRemoveOldest(c) == SubSeq(c, 1, Len(c) - 1)

\* Cache.Add: a key already held moves to the front with the new value; a new
\* key is pushed at the front and the oldest entry is removed on overflow
LruAdd(c, max, k, v) ==
    IF k \in LruKeys(c)
    THEN <<[key |-> k, value |-> v]>> \o LruWithout(c, k)
    ELSE LET pushed == <<[key |-> k, value |-> v]>> \o c
         IN  IF max # 0 /\ Len(pushed) > max
             THEN LruRemoveOldest(pushed)
             ELSE pushed

\* fault: a Get that leaves the entry where it is (a FIFO cache)
LruGetNoTouch(c, k) ==
    IF k \in LruKeys(c)
    THEN [cache |-> c, info |-> <<LruValue(c, k)>>]
    ELSE [cache |-> c, info |-> <<>>]

\* fault: a Get that takes the entry out of the cache
LruGetTake(c, k) ==
    IF k \in LruKeys(c)
    THEN [cache |-> LruWithout(c, k), info |-> <<LruValue(c, k)>>]
    ELSE [cache |-> c, info |-> <<>>]

\* Cache.Get: a hit moves the entry to the front; cache: the list afterwards,
\* info: the value as a sequence, empty on a miss
LruGet(c, k) ==
    IF k \in LruKeys(c)
    THEN [cache |-> <<c[LruIndex(c, k)]>> \o LruWithout(c, k),
          info  |-> <<LruValue(c, k)>>]
    ELSE [cache |-> c, info |-> <<>>]

(***************************************************************************)
(* ProcessFilter.Filter, the computation under the lock.                   *)
(***************************************************************************)
\* `for k, allow := range p.RuleEnv { if _, ok := env[k]; ok { ...; break } }`:
\* Go ranges over a map in an unspecified order, so any rule key present in
\* env can be the one the loop stops at; <<>> when no rule key is present
EnvFirstHits(c, env) ==
    LET m == DOMAIN c.RuleEnv \cap DOMAIN env
    IN  IF m = {} THEN {<<>>} ELSE {<<k>> : k \in m}

\* fault: an admit loop that does not look at the environment
AdmitPassWithoutEnv(c, name, path, env, hit) ==
    \/ name \in DOMAIN c.RuleProcessName /\ c.RuleProcessName[name]
    \/ path \in c.RulePath
    \/ c.AnyProcess

\* the single-iteration admit loop; hit is the rule key its range loop stopped at
AdmitPass(c, name, path, env, hit) ==
    LET filtered == hit # <<>> /\ c.RuleEnv[hit[1]]
    IN  IF name \in DOMAIN c.RuleProcessName /\ c.RuleProcessName[name] THEN TRUE
        ELSE IF path \in c.RulePath THEN TRUE
        ELSE IF c.AnyProcess THEN TRUE
        ELSE filtered

\* `if allow, ok := p.RuleProcessName[name]; ok && !allow { filtered = false }`
DenyName(c, name, filtered) ==
    IF name \in DOMAIN c.RuleProcessName /\ ~c.RuleProcessName[name]
    THEN FALSE ELSE filtered

\* fault: no deny pass over the environment
DenyEnvSkipped(c, env, filtered) == filtered

\* `for k, allow := range p.RuleEnv { if _, ok := env[k]; ok && !allow {...} }`
DenyEnv(c, env, filtered) ==
    IF \E k \in DOMAIN c.RuleEnv : k \in DOMAIN env /\ ~c.RuleEnv[k]
    THEN FALSE ELSE filtered

\* fault: the disable flag ignored
DenyDisableSkipped(c, filtered) == filtered

\* `if p.Disable { filtered = false }`
DenyDisable(c, filtered) == IF c.Disable THEN FALSE ELSE filtered

\* the value of `filtered` when pinfo is built
FilterAllow(c, name, path, env, hit) ==
    DenyDisable(c, DenyEnv(c, env, DenyName(c, name,
        AdmitPass(c, name, path, env, hit))))

\* fault: a scan of SvcAssignEnv without the break, the last variable held wins
ServiceNameLastWins(c, name, env) ==
    LET hits == {i \in 1..Len(c.SvcAssignEnv) : c.SvcAssignEnv[i] \in DOMAIN env}
    IN  IF hits # {}
        THEN env[c.SvcAssignEnv[CHOOSE i \in hits : \A j \in hits : i >= j]]
        ELSE name

\* pinfo.Service: name, or the value of the first variable of SvcAssignEnv
\* that env holds
ServiceName(c, name, env) ==
    LET hits == {i \in 1..Len(c.SvcAssignEnv) : c.SvcAssignEnv[i] \in DOMAIN env}
    IN  IF Cardinality(DOMAIN env) > 0 /\ Len(c.SvcAssignEnv) > 0 /\ hits # {}
        THEN env[c.SvcAssignEnv[CHOOSE i \in hits : \A j \in hits : i <= j]]
        ELSE name

\* pinfo := &ProcSvcInfo{...}
ProcSvcInfo(c, name, path, env, hit) ==
    [Name       |-> name,
     Service    |-> ServiceName(c, name, env),
     AllowTrace |-> FilterAllow(c, name, path, env, hit)]

\* fault: a store that keeps the entry a PID already has
FilterStoreKeepsFirst(live, pid, pinfo) ==
    IF pid \in DOMAIN live THEN live ELSE MapPut(live, pid, pinfo)

\* p.Pid2ProcInfo[pid] = pinfo
FilterStore(live, pid, pinfo) == MapPut(live, pid, pinfo)

(***************************************************************************)
(* ProcessFilter.Delete, the computation under the lock.                   *)
(***************************************************************************)
DeleteLive(live, pid) ==
    IF pid \in DOMAIN live THEN MapDelete(live, pid) ELSE live

\* fault: a Delete that adds to the LRU a PID the live map does not hold
DeleteLruAlways(live, lru, max, pid) ==
    LruAdd(lru, max, pid,
           IF pid \in DOMAIN live THEN live[pid]
           ELSE [Name |-> "", Service |-> "", AllowTrace |-> FALSE])

DeleteLru(live, lru, max, pid) ==
    IF pid \in DOMAIN live THEN LruAdd(lru, max, pid, live[pid]) ELSE lru

(***************************************************************************)
(* ProcessFilter.GetProcInfo, its two probes.  A result is a sequence: the *)
(* record found, or empty for (nil, false).                                *)
(***************************************************************************)
ProbeLive(live, pid) ==
    IF Cardinality(DOMAIN live) > 0 /\ pid \in DOMAIN live
    THEN <<live[pid]>> ELSE <<>>

ProbeLru(lru, pid) ==
    IF Len(lru) > 0 THEN LruGet(lru, pid) ELSE [cache |-> lru, info |-> <<>>]

\* what one lookup of pid, live map first and then the LRU, gives in a state
AtomicLookup(live, lru, pid) ==
    IF pid \in DOMAIN live THEN <<live[pid]>>
    ELSE IF pid \in LruKeys(lru) THEN <<LruValue(lru, pid)>>
    ELSE <<>>

(***************************************************************************)
(* sync.RWMutex.                                                           *)
(***************************************************************************)
\* w is the goroutine in Lock or holding the exclusive lock (the holder of
\* the writers' mutex RWMutex.w, readerCount negative), writer the goroutine
\* Lock has returned to, readers the goroutines RLock has returned to and
\* blocked those waiting in RLock for the writer to leave.
FreeRWMutex == [w |-> 0, writer |-> 0, readers |-> {}, blocked |-> {}]
\* Lock: it takes w and tells the readers, then waits for the readers that
\* hold the lock to leave
CanLock(m) == m.w = 0
Lock(m, t) == [m EXCEPT !.w = t]
\* fault: a Lock that does not wait for the readers
LockedDespiteReaders(m, t) == m.w = t
Locked(m, t) == m.w = t /\ m.readers = {}
LockReturn(m, t) == [m EXCEPT !.writer = t]
\* Unlock: the readers that came meanwhile get the lock, then w is free
Unlock(m, t) == [m EXCEPT !.w = 0, !.writer = 0, !.readers = m.blocked,
                          !.blocked = {}]
\* RLock: with a writer in Lock or holding the lock the reader waits
RLock(m, t) ==
    IF m.w = 0 THEN [m EXCEPT !.readers = @ \cup {t}]
    ELSE [m EXCEPT !.blocked = @ \cup {t}]
RLocked(m, t) == t \in m.readers
\* fault: the shared lock kept when the live map misses
RUnlockForgotten(m, t) == m
RUnlock(m, t) == [m EXCEPT !.readers = @ \ {t}]

(***************************************************************************)
(* Calls: arguments and results.                                           *)
(***************************************************************************)
NoArg == [op |-> "none", pid |-> 0, name |-> "", path |-> "", env |-> EmptyEnv]
NoRes == [op |-> "none", ret |-> FALSE, info |-> <<>>]
FilterArg(pid, name, path, env) ==
    [op |-> "Filter", pid |-> pid, name |-> name, path |-> path, env |-> env]
PidArg(op, pid) == [NoArg EXCEPT !.op = op, !.pid = pid]
FilterRes(ret) == [op |-> "Filter", ret |-> ret, info |-> <<>>]
DeleteRes == [NoRes EXCEPT !.op = "Delete"]
GetRes(info) == [op |-> "GetProcInfo", ret |-> info # <<>>, info |-> info]

\* the environments passed to Filter in Spec
ThreadEnvs == {EmptyEnv}

(***************************************************************************)
(* History variables.                                                      *)
(***************************************************************************)
\* pid moves to the front of an order of the PIDs held by the LRU; the PIDs
\* the LRU no longer holds leave it
OrderTouch(order, lru, pid) ==
    IF pid \in LruKeys(lru)
    THEN <<pid>> \o SelectSeq(order, LAMBDA k : k # pid /\ k \in LruKeys(lru))
    ELSE order

\* the last PID of an order, 0 when it is empty
Oldest(order) == IF order = <<>> THEN 0 ELSE order[Len(order)]

\* what an Add of pid found (the LRU at capacity, pid already held, the PID
\* deleted earliest, the PID used least recently) and which PIDs it dropped
NoAdd == [pid |-> 0, full |-> FALSE, held |-> FALSE, gone |-> {},
          oldestDel |-> 0, leastUsed |-> 0]
AddRecord(before, after, pid) ==
    [pid       |-> pid,
     full      |-> Len(before) = maxEntries,
     held      |-> pid \in LruKeys(before),
     gone      |-> LruKeys(before) \ LruKeys(after),
     oldestDel |-> Oldest(delOrder),
     leastUsed |-> Oldest(useOrder)]

\* every GetProcInfo in progress observes the lookup in the new state
Observe(t, live, lru) ==
    [u \in Threads |->
        IF u # t /\ arg[u].op = "GetProcInfo"
        THEN seen[u] \cup {AtomicLookup(live, lru, arg[u].pid)}
        ELSE seen[u]]

InitState ==
    /\ Pid2ProcInfo = EmptyMap
    /\ PidDeleted = <<>>
    /\ rw = FreeRWMutex
    /\ pc = [t \in Threads |-> "idle"]
    /\ arg = [t \in Threads |-> NoArg]
    /\ res = [t \in Threads |-> NoRes]
    /\ seen = [t \in Threads |-> {}]
    /\ lastFilter = EmptyMap
    /\ delOrder = <<>>
    /\ useOrder = <<>>
    /\ lastAdd = NoAdd

(***************************************************************************)
(* The bodies of the three methods, run by goroutine t with arguments a.   *)
(***************************************************************************)
\* Filter, lines 214-272
FilterEffect(t, a) ==
    /\ \E hit \in EnvFirstHits(cfg, a.env) :
          LET pinfo == ProcSvcInfo(cfg, a.name, a.path, a.env, hit)
              live == FilterStore(Pid2ProcInfo, a.pid, pinfo)
          IN  /\ Pid2ProcInfo' = live
              /\ res' = [res EXCEPT ![t] = FilterRes(pinfo.AllowTrace)]
              /\ lastFilter' = MapPut(lastFilter, a.pid, pinfo)
              /\ seen' = Observe(t, live, PidDeleted)
    /\ lastAdd' = NoAdd
    /\ UNCHANGED <<cfg, PidDeleted, maxEntries, delOrder, useOrder>>

\* Delete, lines 279-282
DeleteEffect(t, a) ==
    /\ LET live == DeleteLive(Pid2ProcInfo, a.pid)
           lru == DeleteLru(Pid2ProcInfo, PidDeleted, maxEntries, a.pid)
       IN  /\ Pid2ProcInfo' = live
           /\ PidDeleted' = lru
           /\ delOrder' = IF a.pid \in DOMAIN Pid2ProcInfo
                          THEN OrderTouch(delOrder, lru, a.pid) ELSE delOrder
           /\ useOrder' = IF a.pid \in DOMAIN Pid2ProcInfo
                          THEN OrderTouch(useOrder, lru, a.pid) ELSE useOrder
           /\ lastAdd' = IF a.pid \in DOMAIN Pid2ProcInfo
                         THEN AddRecord(PidDeleted, lru, a.pid) ELSE NoAdd
           /\ seen' = Observe(t, live, lru)
    /\ res' = [res EXCEPT ![t] = DeleteRes]
    /\ UNCHANGED <<cfg, maxEntries, lastFilter>>

\* GetProcInfo, lines 298-306: the probe of the LRU
GetLruEffect(t, a) ==
    /\ LET r == ProbeLru(PidDeleted, a.pid)
       IN  /\ PidDeleted' = r.cache
           /\ res' = [res EXCEPT ![t] = GetRes(r.info)]
           /\ useOrder' = IF r.info # <<>>
                          THEN OrderTouch(useOrder, r.cache, a.pid) ELSE useOrder
    /\ lastAdd' = NoAdd
    /\ UNCHANGED <<cfg, Pid2ProcInfo, maxEntries, seen, lastFilter, delOrder>>

(***************************************************************************)
(* Spec: Filter, one step per lock operation.                              *)
(***************************************************************************)
Init == cfg \in NameConfigs /\ maxEntries = ThreadMaxEntries /\ InitState

CallFilter(t) ==
    /\ pc[t] = "idle"
    /\ \E pid \in Pids, name \in Names, path \in Paths, env \in ThreadEnvs :
          arg' = [arg EXCEPT ![t] = FilterArg(pid, name, path, env)]
    /\ pc' = [pc EXCEPT ![t] = "f_lock"]
    /\ UNCHANGED <<cfg, Pid2ProcInfo, PidDeleted, maxEntries, rw, res, seen,
                   lastFilter, delOrder, useOrder, lastAdd>>

FilterLock(t) ==
    /\ pc[t] = "f_lock"
    /\ CanLock(rw)
    /\ rw' = Lock(rw, t)
    /\ pc' = [pc EXCEPT ![t] = "f_wait"]
    /\ UNCHANGED <<cfg, Pid2ProcInfo, PidDeleted, maxEntries, arg, res, seen,
                   lastFilter, delOrder, useOrder, lastAdd>>

\* Lock returns
FilterLocked(t) ==
    /\ pc[t] = "f_wait"
    /\ Locked(rw, t)
    /\ rw' = LockReturn(rw, t)
    /\ pc' = [pc EXCEPT ![t] = "f_body"]
    /\ UNCHANGED <<cfg, Pid2ProcInfo, PidDeleted, maxEntries, arg, res, seen,
                   lastFilter, delOrder, useOrder, lastAdd>>

FilterBody(t) ==
    /\ pc[t] = "f_body"
    /\ FilterEffect(t, arg[t])
    /\ pc' = [pc EXCEPT ![t] = "f_unlock"]
    /\ UNCHANGED <<rw, arg>>

\* the deferred Unlock and the return
FilterUnlock(t) ==
    /\ pc[t] = "f_unlock"
    /\ rw' = Unlock(rw, t)
    /\ pc' = [pc EXCEPT ![t] = "idle"]
    /\ arg' = [arg EXCEPT ![t] = NoArg]
    /\ res' = [res EXCEPT ![t] = NoRes]
    /\ UNCHANGED <<cfg, Pid2ProcInfo, PidDeleted, maxEntries, seen,
                   lastFilter, delOrder, useOrder, lastAdd>>

(***************************************************************************)
(* Spec: Delete.                                                           *)
(***************************************************************************)
CallDelete(t) ==
    /\ pc[t] = "idle"
    /\ \E pid \in Pids : arg' = [arg EXCEPT ![t] = PidArg("Delete", pid)]
    /\ pc' = [pc EXCEPT ![t] = "d_lock"]
    /\ UNCHANGED <<cfg, Pid2ProcInfo, PidDeleted, maxEntries, rw, res, seen,
                   lastFilter, delOrder, useOrder, lastAdd>>

DeleteLock(t) ==
    /\ pc[t] = "d_lock"
    /\ CanLock(rw)
    /\ rw' = Lock(rw, t)
    /\ pc' = [pc EXCEPT ![t] = "d_wait"]
    /\ UNCHANGED <<cfg, Pid2ProcInfo, PidDeleted, maxEntries, arg, res, seen,
                   lastFilter, delOrder, useOrder, lastAdd>>

\* Lock returns
DeleteLocked(t) ==
    /\ pc[t] = "d_wait"
    /\ Locked(rw, t)
    /\ rw' = LockReturn(rw, t)
    /\ pc' = [pc EXCEPT ![t] = "d_body"]
    /\ UNCHANGED <<cfg, Pid2ProcInfo, PidDeleted, maxEntries, arg, res, seen,
                   lastFilter, delOrder, useOrder, lastAdd>>

DeleteBody(t) ==
    /\ pc[t] = "d_body"
    /\ DeleteEffect(t, arg[t])
    /\ pc' = [pc EXCEPT ![t] = "d_unlock"]
    /\ UNCHANGED <<rw, arg>>

DeleteUnlock(t) ==
    /\ pc[t] = "d_unlock"
    /\ rw' = Unlock(rw, t)
    /\ pc' = [pc EXCEPT ![t] = "idle"]
    /\ arg' = [arg EXCEPT ![t] = NoArg]
    /\ res' = [res EXCEPT ![t] = NoRes]
    /\ lastAdd' = NoAdd
    /\ UNCHANGED <<cfg, Pid2ProcInfo, PidDeleted, maxEntries, seen,
                   lastFilter, delOrder, useOrder>>

(***************************************************************************)
(* Spec: GetProcInfo.                                                      *)
(***************************************************************************)
CallGetProcInfo(t) ==
    /\ pc[t] = "idle"
    /\ \E pid \in Pids :
          /\ arg' = [arg EXCEPT ![t] = PidArg("GetProcInfo", pid)]
          /\ seen' = [seen EXCEPT ![t] = {AtomicLookup(Pid2ProcInfo, PidDeleted, pid)}]
    /\ pc' = [pc EXCEPT ![t] = "g_rlock"]
    /\ UNCHANGED <<cfg, Pid2ProcInfo, PidDeleted, maxEntries, rw, res,
                   lastFilter, delOrder, useOrder, lastAdd>>

GetRLock(t) ==
    /\ pc[t] = "g_rlock"
    /\ rw' = RLock(rw, t)
    /\ pc' = [pc EXCEPT ![t] = "g_rwait"]
    /\ UNCHANGED <<cfg, Pid2ProcInfo, PidDeleted, maxEntries, arg, res, seen,
                   lastFilter, delOrder, useOrder, lastAdd>>

\* RLock returns
GetRLocked(t) ==
    /\ pc[t] = "g_rwait"
    /\ RLocked(rw, t)
    /\ pc' = [pc EXCEPT ![t] = "g_probe"]
    /\ UNCHANGED <<cfg, Pid2ProcInfo, PidDeleted, maxEntries, rw, arg, res, seen,
                   lastFilter, delOrder, useOrder, lastAdd>>

\* lines 287-293: the probe of the live map and the RUnlock that follows it
\* on either path
GetProbe(t) ==
    /\ pc[t] = "g_probe"
    /\ LET info == ProbeLive(Pid2ProcInfo, arg[t].pid)
       IN  IF info # <<>>
           THEN /\ res' = [res EXCEPT ![t] = GetRes(info)]
                /\ pc' = [pc EXCEPT ![t] = "g_return"]
           ELSE /\ res' = res
                /\ pc' = [pc EXCEPT ![t] = "g_lock"]
    /\ rw' = RUnlock(rw, t)
    /\ UNCHANGED <<cfg, Pid2ProcInfo, PidDeleted, maxEntries, arg, seen,
                   lastFilter, delOrder, useOrder, lastAdd>>

\* line 290: `return v, true` after the hit in the live map
GetReturn(t) ==
    /\ pc[t] = "g_return"
    /\ pc' = [pc EXCEPT ![t] = "idle"]
    /\ arg' = [arg EXCEPT ![t] = NoArg]
    /\ res' = [res EXCEPT ![t] = NoRes]
    /\ seen' = [seen EXCEPT ![t] = {}]
    /\ UNCHANGED <<cfg, Pid2ProcInfo, PidDeleted, maxEntries, rw,
                   lastFilter, delOrder, useOrder, lastAdd>>

GetLock(t) ==
    /\ pc[t] = "g_lock"
    /\ CanLock(rw)
    /\ rw' = Lock(rw, t)
    /\ pc' = [pc EXCEPT ![t] = "g_wait"]
    /\ UNCHANGED <<cfg, Pid2ProcInfo, PidDeleted, maxEntries, arg, res, seen,
                   lastFilter, delOrder, useOrder, lastAdd>>

\* Lock returns
GetLocked(t) ==
    /\ pc[t] = "g_wait"
    /\ Locked(rw, t)
    /\ rw' = LockReturn(rw, t)
    /\ pc' = [pc EXCEPT ![t] = "g_lru"]
    /\ UNCHANGED <<cfg, Pid2ProcInfo, PidDeleted, maxEntries, arg, res, seen,
                   lastFilter, delOrder, useOrder, lastAdd>>

GetLru(t) ==
    /\ pc[t] = "g_lru"
    /\ GetLruEffect(t, arg[t])
    /\ pc' = [pc EXCEPT ![t] = "g_unlock"]
    /\ UNCHANGED <<rw, arg>>

\* the deferred Unlock and the return
GetUnlock(t) ==
    /\ pc[t] = "g_unlock"
    /\ rw' = Unlock(rw, t)
    /\ pc' = [pc EXCEPT ![t] = "idle"]
    /\ arg' = [arg EXCEPT ![t] = NoArg]
    /\ res' = [res EXCEPT ![t] = NoRes]
    /\ seen' = [seen EXCEPT ![t] = {}]
    /\ UNCHANGED <<cfg, Pid2ProcInfo, PidDeleted, maxEntries,
                   lastFilter, delOrder, useOrder, lastAdd>>

Next ==
    \E t \in Threads :
        \/ CallFilter(t) \/ FilterLock(t) \/ FilterLocked(t)
        \/ FilterBody(t) \/ FilterUnlock(t)
        \/ CallDelete(t) \/ DeleteLock(t) \/ DeleteLocked(t)
        \/ DeleteBody(t) \/ DeleteUnlock(t)
        \/ CallGetProcInfo(t) \/ GetRLock(t) \/ GetRLocked(t)
        \/ GetProbe(t) \/ GetReturn(t)
        \/ GetLock(t) \/ GetLocked(t) \/ GetLru(t) \/ GetUnlock(t)

Spec == Init /\ [][Next]_vars

(***************************************************************************)
(* SpecFair: Spec under the scheduling the Go runtime gives.  A goroutine   *)
(* that can run its next statement does so, and so does one whose Lock or  *)
(* RLock can return (weak fairness); a goroutine waiting for the writers'  *)
(* mutex gets it when it is free again and again: sync.Mutex hands the     *)
(* lock to a waiter starved for 1ms (strong fairness).  Nothing obliges a  *)
(* goroutine to start a call.                                              *)
(***************************************************************************)
Fairness ==
    \A t \in Threads :
        /\ WF_vars(FilterLocked(t) \/ FilterBody(t) \/ FilterUnlock(t)
                     \/ DeleteLocked(t) \/ DeleteBody(t) \/ DeleteUnlock(t)
                     \/ GetRLock(t) \/ GetRLocked(t) \/ GetProbe(t)
                     \/ GetReturn(t) \/ GetLocked(t) \/ GetLru(t)
                     \/ GetUnlock(t))
        /\ SF_vars(FilterLock(t) \/ DeleteLock(t) \/ GetLock(t))

SpecFair == Init /\ [][Next]_vars /\ Fairness

(***************************************************************************)
(* SpecSeq and SpecFilter: one caller, each call (Lock, body, Unlock) one  *)
(* step.  arg[Caller] and res[Caller] are the last call and what it        *)
(* returned.                                                               *)
(***************************************************************************)
FilterCall(pid, name, path, env) ==
    /\ arg' = [arg EXCEPT ![Caller] = FilterArg(pid, name, path, env)]
    /\ FilterEffect(Caller, FilterArg(pid, name, path, env))
    /\ UNCHANGED <<rw, pc>>

DeleteCall(pid) ==
    /\ arg' = [arg EXCEPT ![Caller] = PidArg("Delete", pid)]
    /\ DeleteEffect(Caller, PidArg("Delete", pid))
    /\ UNCHANGED <<rw, pc>>

GetProcInfoCall(pid) ==
    /\ arg' = [arg EXCEPT ![Caller] = PidArg("GetProcInfo", pid)]
    /\ LET info == ProbeLive(Pid2ProcInfo, pid)
       IN  IF info # <<>>
           THEN /\ res' = [res EXCEPT ![Caller] = GetRes(info)]
                /\ lastAdd' = NoAdd
                /\ UNCHANGED <<cfg, Pid2ProcInfo, PidDeleted, maxEntries, seen,
                               lastFilter, delOrder, useOrder>>
           ELSE GetLruEffect(Caller, PidArg("GetProcInfo", pid))
    /\ UNCHANGED <<rw, pc>>

InitSeq == cfg \in NameConfigs /\ maxEntries = SeqMaxEntries /\ InitState

NextSeq ==
    \E pid \in SeqPids :
        \/ \E name \in Names, path \in Paths, env \in ThreadEnvs :
              FilterCall(pid, name, path, env)
        \/ DeleteCall(pid)
        \/ GetProcInfoCall(pid)

SpecSeq == InitSeq /\ [][NextSeq]_vars

InitFilter == cfg \in AllConfigs /\ maxEntries = SeqMaxEntries /\ InitState

NextFilter ==
    \E pid \in FilterPids :
        \/ \E name \in Names, path \in Paths, env \in Envs :
              FilterCall(pid, name, path, env)
        \/ DeleteCall(pid)
        \/ GetProcInfoCall(pid)

SpecFilter == InitFilter /\ [][NextFilter]_vars

(***************************************************************************)
(* The identifier codec.  A string is a sequence of one-character strings, *)
(* a byte slice a sequence of numbers 0..255.  spanid.ID64 is an unsigned  *)
(* integer of IdBytes bytes (8 in the code) and spanid.ID128 two of them.  *)
(***************************************************************************)
Modulus == 256 ^ IdBytes
MaxUint == Modulus - 1
MinInt == -(Modulus \div 2)

\* encoding/hex: hextable and reverseHexTable (255 for a byte that is no digit)
HexTable == <<"0", "1", "2", "3", "4", "5", "6", "7", "8", "9",
              "a", "b", "c", "d", "e", "f">>
UpperHex == <<"A", "B", "C", "D", "E", "F">>
FromHexChar(c) ==
    IF \E i \in 1..16 : HexTable[i] = c
    THEN (CHOOSE i \in 1..16 : HexTable[i] = c) - 1
    ELSE IF \E i \in 1..6 : UpperHex[i] = c
    THEN (CHOOSE i \in 1..6 : UpperHex[i] = c) + 9
    ELSE 255

\* `b, _ := hex.DecodeString(s)`: the bytes decoded before the first error (a
\* byte that is no hex digit, or the odd digit at the end); the error is dropped
RECURSIVE DecodeString(_)
DecodeString(s) ==
    IF Len(s) < 2 \/ FromHexChar(s[1]) > 15 \/ FromHexChar(s[2]) > 15
    THEN <<>>
    ELSE <<16 * FromHexChar(s[1]) + FromHexChar(s[2])>>
             \o DecodeString(Tail(Tail(s)))

\* binary.BigEndian.Uint64
RECURSIVE BigEndianUint(_)
BigEndianUint(b) ==
    IF b = <<>> THEN 0
    ELSE b[Len(b)] + 256 * BigEndianUint(SubSeq(b, 1, Len(b) - 1))

\* fault: the bytes written least significant first
PutUintLittleEndian(i) == [k \in 1..IdBytes |-> (i \div (256 ^ (k - 1))) % 256]

\* binary.BigEndian.PutUint64
PutUint(i) == [k \in 1..IdBytes |-> (i \div (256 ^ (IdBytes - k))) % 256]

\* hex.EncodeToString
RECURSIVE EncodeToString(_)
EncodeToString(b) ==
    IF b = <<>> THEN <<>>
    ELSE <<HexTable[(b[1] \div 16) + 1], HexTable[(b[1] % 16) + 1]>>
             \o EncodeToString(Tail(b))

\* strconv.FormatUint(i, 10)
RECURSIVE FormatUint(_)
FormatUint(i) ==
    IF i < 10 THEN <<HexTable[i + 1]>>
    ELSE FormatUint(i \div 10) \o <<HexTable[(i % 10) + 1]>>

FormatSpanID(i, base16) ==
    IF base16 THEN EncodeToString(PutUint(i)) ELSE FormatUint(i)

\* strconv.ParseUint(s, 10, 64), the loop over the bytes of s from the value n
\* read so far: [val, err], err one of "nil", "syntax", "range"
RECURSIVE ParseUintScan(_, _)
ParseUintScan(s, n) ==
    IF s = <<>> THEN [val |-> n, err |-> "nil"]
    ELSE IF FromHexChar(s[1]) > 9
    THEN [val |-> 0, err |-> "syntax"]
    ELSE IF n >= (MaxUint \div 10) + 1
    THEN [val |-> MaxUint, err |-> "range"]
    ELSE IF n * 10 + FromHexChar(s[1]) > MaxUint
    THEN [val |-> MaxUint, err |-> "range"]
    ELSE ParseUintScan(Tail(s), n * 10 + FromHexChar(s[1]))

ParseUint(s) ==
    IF s = <<>> THEN [val |-> 0, err |-> "syntax"] ELSE ParseUintScan(s, 0)

\* strconv.ParseInt(s, 10, 64)
ParseInt(s) ==
    IF s = <<>> THEN [val |-> 0, err |-> "syntax"]
    ELSE LET neg == s[1] = "-"
             un == ParseUint(IF s[1] \in {"+", "-"} THEN Tail(s) ELSE s)
         IN  IF un.err = "syntax" THEN [val |-> 0, err |-> "syntax"]
             ELSE IF ~neg /\ un.val >= -MinInt
             THEN [val |-> -MinInt - 1, err |-> "range"]
             ELSE IF neg /\ un.val > -MinInt
             THEN [val |-> MinInt, err |-> "range"]
             ELSE [val |-> IF neg THEN -un.val ELSE un.val, err |-> un.err]

\* the conversion spanid.ID64(id) of a signed value: the same bits, unsigned
ID64(id) == IF id < 0 THEN id + Modulus ELSE id

\* spanid.ID128{}
ZeroID128 == [Low |-> 0, High |-> 0]

HexTraceid2ID128(s) ==
    LET b == DecodeString(s)
    IN  IF Len(b) = 2 * IdBytes
        THEN [Low  |-> BigEndianUint(SubSeq(b, IdBytes + 1, 2 * IdBytes)),
              High |-> BigEndianUint(SubSeq(b, 1, IdBytes))]
        ELSE ZeroID128

\* fault: every input parsed as unsigned
DecTraceOrSpanid2ID64Unsigned(s) == ID64(ParseUint(s).val)

DecTraceOrSpanid2ID64(s) ==
    IF s # <<>> /\ s[1] = "-"
    THEN ID64(ParseInt(s).val)
    ELSE ID64(ParseUint(s).val)

HexSpanid2ID64(s) ==
    LET b == DecodeString(s)
    IN  IF Len(b) = IdBytes THEN BigEndianUint(b) ELSE 0

(***************************************************************************)
(* GetTraceInfo.  A header map is a function from names to values, both    *)
(* strings.                                                                *)
(***************************************************************************)
XDatadogTraceId == <<"x", "-", "d", "a", "t", "a", "d", "o", "g", "-", "t", "r", "a", "c", "e", "-", "i", "d">>
XDatadogParentId == <<"x", "-", "d", "a", "t", "a", "d", "o", "g", "-", "p", "a", "r", "e", "n", "t", "-", "i", "d">>
XDatadogSamplingPriority == <<"x", "-", "d", "a", "t", "a", "d", "o", "g", "-", "s", "a", "m", "p", "l", "i", "n", "g", "-", "p", "r", "i", "o", "r", "i", "t", "y">>
Traceparent == <<"t", "r", "a", "c", "e", "p", "a", "r", "e", "n", "t">>

\* bytes.Index / strings.Index: where sep first occurs in s, counted from 0,
\* or -1
Occurs(s, sep, i) ==
    i + Len(sep) <= Len(s) /\ SubSeq(s, i + 1, i + Len(sep)) = sep
Index(s, sep) ==
    IF \E i \in 0..Len(s) : Occurs(s, sep, i)
    THEN CHOOSE i \in 0..Len(s) :
             Occurs(s, sep, i) /\ \A j \in 0..(i - 1) : ~Occurs(s, sep, j)
    ELSE -1

\* strings.Split(s, sep), sep not empty
RECURSIVE Split(_, _)
Split(s, sep) ==
    IF Index(s, sep) < 0 THEN <<s>>
    ELSE <<SubSeq(s, 1, Index(s, sep))>>
             \o Split(SubSeq(s, Index(s, sep) + Len(sep) + 1, Len(s)), sep)

\* SampledDataDog: the sampling priority is a number above 0
SampledDataDog(v) == ParseInt(v).val > 0

\* SampledW3C: the low bit of the last hex digit of the flags
SampledW3C(flags) ==
    /\ flags # <<>>
    /\ FromHexChar(flags[Len(flags)]) <= 15
    /\ FromHexChar(flags[Len(flags)]) % 2 = 1

TraceInfo(sampled, hexEnc, traceID, parentID) ==
    [sampled |-> sampled, hexEnc |-> hexEnc, traceID |-> traceID,
     parentID |-> parentID]

\* fault: traceparent looked at first
GetTraceInfoW3CFirst(headers) ==
    IF Traceparent \in DOMAIN headers
           /\ Len(Split(headers[Traceparent], <<"-">>)) = 4
    THEN LET traceParent == Split(headers[Traceparent], <<"-">>)
         IN  TraceInfo(SampledW3C(traceParent[4]), TRUE,
                       HexTraceid2ID128(traceParent[2]),
                       HexSpanid2ID64(traceParent[3]))
    ELSE IF XDatadogTraceId \in DOMAIN headers
    THEN TraceInfo(
             IF XDatadogSamplingPriority \in DOMAIN headers
             THEN SampledDataDog(headers[XDatadogSamplingPriority]) ELSE FALSE,
             FALSE,
             [Low |-> DecTraceOrSpanid2ID64(headers[XDatadogTraceId]), High |-> 0],
             IF XDatadogParentId \in DOMAIN headers
             THEN DecTraceOrSpanid2ID64(headers[XDatadogParentId]) ELSE 0)
    ELSE TraceInfo(FALSE, FALSE, ZeroID128, 0)

GetTraceInfo(headers) ==
    IF XDatadogTraceId \in DOMAIN headers
    THEN TraceInfo(
             IF XDatadogSamplingPriority \in DOMAIN headers
             THEN SampledDataDog(headers[XDatadogSamplingPriority]) ELSE FALSE,
             FALSE,
             [Low |-> DecTraceOrSpanid2ID64(headers[XDatadogTraceId]), High |-> 0],
             IF XDatadogParentId \in DOMAIN headers
             THEN DecTraceOrSpanid2ID64(headers[XDatadogParentId]) ELSE 0)
    ELSE IF Traceparent \in DOMAIN headers
    THEN LET traceParent == Split(headers[Traceparent], <<"-">>)
         IN  IF Len(traceParent) = 4
             THEN TraceInfo(SampledW3C(traceParent[4]), TRUE,
                            HexTraceid2ID128(traceParent[2]),
                            HexSpanid2ID64(traceParent[3]))
             ELSE TraceInfo(FALSE, FALSE, ZeroID128, 0)
    ELSE TraceInfo(FALSE, FALSE, ZeroID128, 0)

(***************************************************************************)
(* SpecCodec: the caller applies one function of the codec, or             *)
(* GetTraceInfo, to an input drawn at the start, and parses back what      *)
(* FormatSpanID gave.                                                      *)
(***************************************************************************)
CodecArg(op, s, i, base16) == [op |-> op, s |-> s, i |-> i, base16 |-> base16]
CodecRes(op, s, id, traceID) == [op |-> op, s |-> s, id |-> id, traceID |-> traceID]

\* the strings over an alphabet up to a length
StringsUpTo(A, n) == UNION {[1..k -> A] : k \in 0..n}
\* a lower-case digit, an upper-case digit, a byte that is no hex digit
HexAlphabet == {"a", "F", "x"}
DecAlphabet == {"-", "0", "1", "9", "x"}
\* the decimal text of a signed integer, as a DataDog tracer sends it
DecText(n) == IF n < 0 THEN <<"-">> \o FormatUint(-n) ELSE FormatUint(n)
TraceidInputs == StringsUpTo(HexAlphabet, 4 * IdBytes + 2)
SpanidInputs == StringsUpTo(HexAlphabet, 2 * IdBytes + 2)
DecInputs ==
    StringsUpTo(DecAlphabet, Len(FormatUint(MaxUint)) + 1)
        \cup {DecText(n) : n \in (MinInt - 1)..(MaxUint + 1)}

\* strings.Join for a separator of one byte
RECURSIVE Join(_, _)
Join(parts, sep) ==
    IF Len(parts) = 0 THEN <<>>
    ELSE IF Len(parts) = 1 THEN parts[1]
    ELSE parts[1] \o <<sep>> \o Join(Tail(parts), sep)

\* the hex text of the trace ID {High: 1, Low: 171} and of the span ID 205
TraceidText == FormatSpanID(1, TRUE) \o FormatSpanID(171, TRUE)
SpanidText == FormatSpanID(205, TRUE)
\* a traceparent value of four parts, of three, of five, and one of four
\* parts that are no hex
TraceparentValues ==
    {Join(<<<<"0", "0">>, TraceidText, SpanidText, <<"0", "1">>>>, "-"),
     Join(<<<<"0", "0">>, TraceidText, SpanidText>>, "-"),
     Join(<<<<"0", "0">>, TraceidText, SpanidText, <<"0", "1">>, <<"x">>>>, "-"),
     Join(<<<<"0", "0">>, <<"x">>, <<"x">>, <<"0", "0">>>>, "-")}

TraceHeaderNames ==
    {XDatadogTraceId, XDatadogParentId, XDatadogSamplingPriority, Traceparent}
\* the values each header takes: well-formed, malformed, out of range
TraceHeaderValues(k) ==
    IF k = XDatadogTraceId THEN {<<"7">>, <<"x">>, DecText(MaxUint + 1)}
    ELSE IF k = XDatadogParentId THEN {<<"9">>, <<"-", "1">>}
    ELSE IF k = XDatadogSamplingPriority THEN {<<"1">>, <<"0">>}
    ELSE TraceparentValues
\* the header maps over every subset of the four headers, and the maps with
\* every negative decimal as x-datadog-trace-id, alone or beside a traceparent
TraceHeaderMaps ==
    UNION {{m \in [K -> UNION {TraceHeaderValues(k) : k \in K}] :
               \A k \in K : m[k] \in TraceHeaderValues(k)} :
           K \in SUBSET TraceHeaderNames}
SignedHeaderMaps ==
    {[k \in {XDatadogTraceId} |-> DecText(n)] : n \in MinInt..(-1)}
        \cup {[k \in {XDatadogTraceId, Traceparent} |->
                  IF k = Traceparent
                  THEN Join(<<<<"0", "0">>, TraceidText, SpanidText, <<"0", "1">>>>, "-")
                  ELSE DecText(n)] : n \in MinInt..(-1)}

\* a new filter, and the caller about to make the call a
InitPending(a) ==
    /\ cfg \in NameConfigs
    /\ maxEntries = SeqMaxEntries
    /\ Pid2ProcInfo = EmptyMap
    /\ PidDeleted = <<>>
    /\ rw = FreeRWMutex
    /\ pc = [t \in Threads |-> "idle"]
    /\ arg = [t \in Threads |-> IF t = Caller THEN a ELSE NoArg]
    /\ res = [t \in Threads |-> NoRes]
    /\ seen = [t \in Threads |-> {}]
    /\ lastFilter = EmptyMap
    /\ delOrder = <<>>
    /\ useOrder = <<>>
    /\ lastAdd = NoAdd

\* the call drawn is a call of op and has not been made
Pending(op) == arg[Caller].op = op /\ res[Caller] = NoRes

\* the call returns r; the filter is not touched
Return(r) ==
    /\ res' = [res EXCEPT ![Caller] = r]
    /\ UNCHANGED <<cfg, Pid2ProcInfo, PidDeleted, maxEntries, rw, pc, arg, seen,
                   lastFilter, delOrder, useOrder, lastAdd>>

HexTraceid2ID128Call ==
    /\ Pending("HexTraceid2ID128")
    /\ Return(CodecRes("HexTraceid2ID128", <<>>, 0,
                       HexTraceid2ID128(arg[Caller].s)))

HexSpanid2ID64Call ==
    /\ Pending("HexSpanid2ID64")
    /\ Return(CodecRes("HexSpanid2ID64", <<>>,
                       HexSpanid2ID64(arg[Caller].s), ZeroID128))

DecTraceOrSpanid2ID64Call ==
    /\ Pending("DecTraceOrSpanid2ID64")
    /\ Return(CodecRes("DecTraceOrSpanid2ID64", <<>>,
                       DecTraceOrSpanid2ID64(arg[Caller].s), ZeroID128))

FormatSpanIDCall ==
    /\ Pending("FormatSpanID")
    /\ Return(CodecRes("FormatSpanID",
                       FormatSpanID(arg[Caller].i, arg[Caller].base16),
                       0, ZeroID128))

GetTraceInfoCall ==
    /\ Pending("GetTraceInfo")
    /\ Return([op |-> "GetTraceInfo", out |-> GetTraceInfo(arg[Caller].headers)])

\* the string FormatSpanID returned is parsed back in the base it was written in
ParseFormattedCall ==
    /\ res[Caller].op = "FormatSpanID"
    /\ LET op == IF arg[Caller].base16 THEN "HexSpanid2ID64"
                 ELSE "DecTraceOrSpanid2ID64"
           id == IF arg[Caller].base16 THEN HexSpanid2ID64(res[Caller].s)
                 ELSE DecTraceOrSpanid2ID64(res[Caller].s)
       IN  /\ arg' = [arg EXCEPT ![Caller] = CodecArg(op, res[Caller].s, 0, FALSE)]
           /\ res' = [res EXCEPT ![Caller] = CodecRes(op, <<>>, id, ZeroID128)]
    /\ UNCHANGED <<cfg, Pid2ProcInfo, PidDeleted, maxEntries, rw, pc, seen,
                   lastFilter, delOrder, useOrder, lastAdd>>

InitCodec ==
    \/ \E s \in TraceidInputs : InitPending(CodecArg("HexTraceid2ID128", s, 0, FALSE))
    \/ \E s \in SpanidInputs : InitPending(CodecArg("HexSpanid2ID64", s, 0, FALSE))
    \/ \E s \in DecInputs :
          InitPending(CodecArg("DecTraceOrSpanid2ID64", s, 0, FALSE))
    \/ \E i \in 0..MaxUint, b \in BOOLEAN :
          InitPending(CodecArg("FormatSpanID", <<>>, i, b))
    \/ \E h \in TraceHeaderMaps \cup SignedHeaderMaps :
          InitPending([op |-> "GetTraceInfo", headers |-> h])

NextCodec ==
    \/ HexTraceid2ID128Call
    \/ HexSpanid2ID64Call
    \/ DecTraceOrSpanid2ID64Call
    \/ FormatSpanIDCall
    \/ ParseFormattedCall
    \/ GetTraceInfoCall

SpecCodec == InitCodec /\ [][NextCodec]_vars

(***************************************************************************)
(* GetHTTPHeader.  The payload is a sequence of bytes, each a string of    *)
(* one character.  The result is nil, a header map, or the run-time panic  *)
(* of an index out of range.                                               *)
(***************************************************************************)
CRLF == <<"\r", "\n">>
\* the bytes strings.TrimSpace takes for white space (of the ASCII ones, \v
\* has no spelling here)
WhiteSpace == {" ", "\t", "\n", "\f", "\r"}

HTTPHeaderNil == [kind |-> "nil", headers |-> EmptyMap]
HTTPHeaderPanic == [kind |-> "panic", headers |-> EmptyMap]
HTTPHeaderMap(headers) == [kind |-> "map", headers |-> headers]

\* bytes.LastIndex: where sep last occurs in s, counted from 0, or -1
LastIndex(s, sep) ==
    IF \E i \in 0..Len(s) : Occurs(s, sep, i)
    THEN CHOOSE i \in 0..Len(s) :
             Occurs(s, sep, i) /\ \A j \in (i + 1)..Len(s) : ~Occurs(s, sep, j)
    ELSE -1

\* s[n:]
SliceFrom(s, n) == SubSeq(s, n + 1, Len(s))

\* strings.SplitN(v, sep, 2)
SplitN2(v, sep) ==
    IF Index(v, sep) < 0 THEN <<v>>
    ELSE <<SubSeq(v, 1, Index(v, sep)), SliceFrom(v, Index(v, sep) + Len(sep))>>

\* strings.TrimSpace
RECURSIVE TrimLeft(_)
TrimLeft(s) ==
    IF s # <<>> /\ Head(s) \in WhiteSpace THEN TrimLeft(Tail(s)) ELSE s
RECURSIVE TrimRight(_)
TrimRight(s) ==
    IF s # <<>> /\ s[Len(s)] \in WhiteSpace
    THEN TrimRight(SubSeq(s, 1, Len(s) - 1)) ELSE s
TrimSpace(s) == TrimRight(TrimLeft(s))

\* the switch on the URI: an absolute URI has a path, any other starts with /
URIAccepted(uri) ==
    IF Len(uri) > 8 /\ SubSeq(uri, 1, 8) = <<"h", "t", "t", "p", "s", ":", "/", "/">>
    THEN Index(SliceFrom(uri, 8), <<"/">>) # -1
    ELSE IF Len(uri) > 7 /\ SubSeq(uri, 1, 7) = <<"h", "t", "t", "p", ":", "/", "/">>
    THEN Index(SliceFrom(uri, 7), <<"/">>) # -1
    ELSE Len(uri) > 0 /\ SubSeq(uri, 1, 1) = <<"/">>

\* the loop over the header lines from line i on: it stops at the first line
\* without a colon, and the first value of a name stays
RECURSIVE HeaderLines(_, _, _)
HeaderLines(hdr, i, headers) ==
    IF i > Len(hdr) THEN headers
    ELSE LET kv == SplitN2(hdr[i], <<":">>)
         IN  IF Len(kv) # 2 THEN headers
             ELSE HeaderLines(hdr, i + 1,
                              IF kv[1] \in DOMAIN headers THEN headers
                              ELSE MapPut(headers, kv[1], TrimSpace(kv[2])))

\* an index expression s[i] and a slice expression s[lo:hi] that do not panic
IndexInRange(s, i) == 0 <= i /\ i < Len(s)
SliceInRange(s, lo, hi) == 0 <= lo /\ lo <= hi /\ hi <= Len(s)

\* the parse from the request line on, payload cut before its last blank line
RequestHeaders(payload) ==
    LET idx == Index(payload, CRLF)
        req == Split(SubSeq(payload, 1, idx), <<" ">>)
        uriAndParam == Split(req[2], <<"?">>)
    IN  IF idx < 0 THEN HTTPHeaderNil
        ELSE IF ~SliceInRange(payload, 0, idx) THEN HTTPHeaderPanic
        ELSE IF Len(req) # 3 THEN HTTPHeaderNil
        ELSE IF ~IndexInRange(uriAndParam, 0) THEN HTTPHeaderPanic
        ELSE IF ~URIAccepted(uriAndParam[1]) THEN HTTPHeaderNil
        ELSE IF ~SliceInRange(payload, idx + 2, Len(payload)) THEN HTTPHeaderPanic
        ELSE HTTPHeaderMap(
                 HeaderLines(Split(SliceFrom(payload, idx + 2), CRLF), 1, EmptyMap))

GetHTTPHeader(payload) ==
    IF ~IndexInRange(payload, 0) THEN HTTPHeaderPanic
    ELSE IF payload[1] = "0" THEN HTTPHeaderNil
    ELSE LET idx == LastIndex(payload, CRLF \o CRLF)
         IN  IF idx > 0
             THEN IF SliceInRange(payload, 0, idx)
                  THEN RequestHeaders(SubSeq(payload, 1, idx))
                  ELSE HTTPHeaderPanic
             ELSE IF idx = 0 THEN HTTPHeaderNil
             ELSE RequestHeaders(payload)

(***************************************************************************)
(* SpecHeader: the caller parses a payload drawn at the start, and unless  *)
(* the parse panicked, hands what it returned to GetTraceInfo.             *)
(***************************************************************************)
LowerLetters ==
    <<"a", "b", "c", "d", "e", "f", "g", "h", "i", "j", "k", "l", "m",
      "n", "o", "p", "q", "r", "s", "t", "u", "v", "w", "x", "y", "z">>
UpperLetters ==
    <<"A", "B", "C", "D", "E", "F", "G", "H", "I", "J", "K", "L", "M",
      "N", "O", "P", "Q", "R", "S", "T", "U", "V", "W", "X", "Y", "Z">>
ToUpperChar(c) ==
    IF \E i \in 1..26 : LowerLetters[i] = c
    THEN UpperLetters[CHOOSE i \in 1..26 : LowerLetters[i] = c] ELSE c
\* a header name as written, in capitals, and as net/http writes it
Canonical(k) ==
    [i \in 1..Len(k) |-> IF i = 1 \/ k[i - 1] = "-" THEN ToUpperChar(k[i]) ELSE k[i]]
Spellings == {"lower", "Canonical", "UPPER"}
Spelled(k, sp) ==
    IF sp = "lower" THEN k
    ELSE IF sp = "UPPER" THEN [i \in 1..Len(k) |-> ToUpperChar(k[i])]
    ELSE Canonical(k)

HeaderLine(k, v) == k \o <<":", " ">> \o v \o CRLF
\* request lines with an origin-form URI and a query, with absolute URIs with
\* and without a path
RequestLines ==
    {<<"G", "E", "T", " ", "/", "a", "?", "b", " ", "H", "/", "1">>,
     <<"G", "E", "T", " ", "h", "t", "t", "p", ":", "/", "/", "h", "/", " ", "H", "/", "1">>,
     <<"G", "E", "T", " ", "h", "t", "t", "p", ":", "/", "/", "h", " ", "H", "/", "1">>,
     <<"G", "E", "T", " ", "h", "t", "t", "p", "s", ":", "/", "/", "h", "/", " ", "H", "/", "1">>,
     <<"G", "E", "T", " ", "h", "t", "t", "p", "s", ":", "/", "/", "h", " ", "H", "/", "1">>}
\* the trace headers of a DataDog tracer and of a W3C tracer
DataDogLines(sp) ==
    HeaderLine(Spelled(XDatadogTraceId, sp), <<"7">>)
        \o HeaderLine(Spelled(XDatadogParentId, sp), <<"9">>)
        \o HeaderLine(Spelled(XDatadogSamplingPriority, sp), <<"1">>)
W3CLines(sp) ==
    HeaderLine(Spelled(Traceparent, sp),
               Join(<<<<"0", "0">>, TraceidText, SpanidText, <<"0", "1">>>>, "-"))
\* complete requests: a request line, a Host header, the trace headers of one
\* tracer in one spelling, a blank line and a body
Requests ==
    {ln \o CRLF \o lines \o CRLF \o <<"b">> :
        ln \in RequestLines,
        lines \in UNION {{HeaderLine(Spelled(<<"h", "o", "s", "t">>, sp), <<"h">>) \o tr :
                              tr \in {DataDogLines(sp), W3CLines(sp)}} :
                          sp \in Spellings}}
Prefixes(s) == {SubSeq(s, 1, n) : n \in 0..Len(s)}
PayloadAlphabet == {"0", "G", " ", "/", ":", "\r", "\n"}
\* every buffer of up to MaxPayload bytes, and every truncation of a request
Payloads ==
    StringsUpTo(PayloadAlphabet, MaxPayload)
        \cup UNION {Prefixes(r) : r \in Requests}

GetHTTPHeaderCall ==
    /\ Pending("GetHTTPHeader")
    /\ LET r == GetHTTPHeader(arg[Caller].payload)
       IN  Return([op |-> "GetHTTPHeader", kind |-> r.kind, headers |-> r.headers])

\* the caller hands the map, nil or not, to GetTraceInfo
GetTraceInfoOfHeaderCall ==
    /\ res[Caller].op = "GetHTTPHeader"
    /\ res[Caller].kind # "panic"
    /\ Return([op |-> "GetTraceInfo", out |-> GetTraceInfo(res[Caller].headers)])

InitHeader ==
    \E payload \in Payloads :
        InitPending([op |-> "GetHTTPHeader", payload |-> payload])

NextHeader ==
    \/ GetHTTPHeaderCall
    \/ GetTraceInfoOfHeaderCall

SpecHeader == InitHeader /\ [][NextHeader]_vars

(***************************************************************************)
(* The claims.                                                             *)
(***************************************************************************)
\* the goroutines whose GetProcInfo has its result and has not yet returned
Returning == {t \in Threads : pc[t] \in {"g_return", "g_unlock"}}

\* C1: in every reachable state no PID is both a key of the live map and a
\* key of the deleted-PID LRU.
C1_DisjointContainers == DOMAIN Pid2ProcInfo \cap LruKeys(PidDeleted) = {}

\* C2: the result every GetProcInfo(p) is about to return is what an atomic
\* lookup of p (live map first, then the LRU) gives in some state between
\* the call's start and its return.
C2_GetProcInfoLinearizable == \A t \in Returning : res[t].info \in seen[t]

\* the last call of SpecSeq and SpecFilter and what it returned
LastArg == arg[Caller]
LastRes == res[Caller]
\* the last call was GetProcInfo(p) for a PID p that Filter was called on
GotFiltered == LastRes.op = "GetProcInfo" /\ LastArg.pid \in DOMAIN lastFilter
Held == DOMAIN Pid2ProcInfo \cup LruKeys(PidDeleted)

\* every call so far that changed the state was a Filter or a Delete of the
\* PID just looked up: no other PID was ever filtered
OnlyLastPid == DOMAIN lastFilter = {LastArg.pid}

\* C3: after completed Filter(p) and Delete(p) calls with at least one
\* Filter(p), GetProcInfo(p) is found and returns the record of the most
\* recent Filter(p), wherever p sits; and after calls on other PIDs as well
\* it never returns the record of an earlier Filter(p), and it is not found
\* only when p is in neither container.
C3_FoundLastFilter ==
    GotFiltered =>
        /\ OnlyLastPid => LastRes.info = <<lastFilter[LastArg.pid]>>
        /\ LastRes.info \in {<<>>, <<lastFilter[LastArg.pid]>>}
        /\ LastRes.info = <<>> => LastArg.pid \notin Held

\* C3 witness: p was filtered, deleted and filtered again with another name,
\* so that the LRU still holds its earlier record, and GetProcInfo(p) gives
\* the record of the latest Filter(p).
C3_Witness ==
    /\ GotFiltered /\ OnlyLastPid
    /\ LastArg.pid \in DOMAIN Pid2ProcInfo \cap LruKeys(PidDeleted)
    /\ LruValue(PidDeleted, LastArg.pid) # lastFilter[LastArg.pid]
    /\ LastRes.info = <<lastFilter[LastArg.pid]>>

\* C4: GetProcInfo(p) returns found only for a PID that Filter was called on
\* earlier; for any other PID it returns (nil, false).
C4_FoundOnlyFiltered ==
    LastRes.op = "GetProcInfo" /\ LastArg.pid \notin DOMAIN lastFilter
        => ~LastRes.ret /\ LastRes.info = <<>>

\* C4 witness: a lookup of a never-filtered PID that probes a non-empty LRU
\* and misses, while the live map holds other PIDs.
C4_Witness ==
    /\ LastRes.op = "GetProcInfo"
    /\ LastArg.pid \notin DOMAIN lastFilter
    /\ PidDeleted # <<>>
    /\ DOMAIN Pid2ProcInfo # {}
    /\ ~LastRes.ret

\* an explicit deny rule matches the last Filter call
DenyMatches ==
    \/ /\ LastArg.name \in DOMAIN cfg.RuleProcessName
       /\ ~cfg.RuleProcessName[LastArg.name]
    \/ \E k \in DOMAIN LastArg.env : k \in DOMAIN cfg.RuleEnv /\ ~cfg.RuleEnv[k]
\* an admit rule matches it too
AdmitMatches ==
    \/ /\ LastArg.name \in DOMAIN cfg.RuleProcessName
       /\ cfg.RuleProcessName[LastArg.name]
    \/ \E k \in DOMAIN LastArg.env : k \in DOMAIN cfg.RuleEnv /\ cfg.RuleEnv[k]

\* C5: when the process name has a rule of polarity false, or env holds a
\* rule_env key of polarity false, Filter returns false and stores
\* AllowTrace = false, whatever any_process and the admit rules say.
C5_DenyOverrides ==
    LastRes.op = "Filter" /\ DenyMatches =>
        /\ ~LastRes.ret
        /\ LastArg.pid \in DOMAIN Pid2ProcInfo
        /\ ~Pid2ProcInfo[LastArg.pid].AllowTrace

\* C5 witness: a Filter call that a deny rule and an admit rule both match,
\* with any_process set and disable clear.
C5_Witness ==
    /\ LastRes.op = "Filter" /\ DenyMatches /\ AdmitMatches
    /\ cfg.AnyProcess /\ ~cfg.Disable
    /\ ~LastRes.ret

\* every record held in the live map or in the LRU
HeldRecords ==
    {Pid2ProcInfo[p] : p \in DOMAIN Pid2ProcInfo}
        \cup {PidDeleted[i].value : i \in 1..Len(PidDeleted)}

\* C6: with disable set, every Filter call returns false, and every record
\* held in the live map or the LRU or returned by GetProcInfo has
\* AllowTrace = false.
C6_DisableAdmitsNothing ==
    cfg.Disable =>
        /\ LastRes.op = "Filter" => ~LastRes.ret
        /\ \A r \in HeldRecords : ~r.AllowTrace
        /\ LastRes.op = "GetProcInfo" /\ LastRes.ret => ~LastRes.info[1].AllowTrace

\* C6 witness: disable and any_process set, an admit rule matching the last
\* Filter call, a record held in each container.
C6_Witness ==
    /\ cfg.Disable /\ cfg.AnyProcess
    /\ LastRes.op = "Filter" /\ AdmitMatches /\ ~DenyMatches
    /\ DOMAIN Pid2ProcInfo # {} /\ PidDeleted # <<>>

\* C7 as stated: an Add by Delete of a PID the LRU does not hold, into an LRU
\* holding its capacity, evicts exactly one entry, the one whose Delete
\* happened earliest.
C7_EvictsEarliestDeleted ==
    lastAdd.full /\ ~lastAdd.held => lastAdd.gone = {lastAdd.oldestDel}

\* C7 as amended: such an Add of a PID the LRU does not hold evicts exactly
\* one entry, the least recently used one (the one whose latest Delete or
\* GetProcInfo hit in the LRU is the earliest); an Add of a PID the LRU
\* already holds evicts nothing.
C7_EvictsLeastRecentlyUsed ==
    lastAdd.full =>
        IF lastAdd.held THEN lastAdd.gone = {}
        ELSE lastAdd.gone = {lastAdd.leastUsed}

\* C7 witness: an Add into a full LRU evicted the least recently used entry
\* although another entry had been deleted earlier.
C7_Witness ==
    /\ lastAdd.full /\ ~lastAdd.held
    /\ lastAdd.leastUsed # lastAdd.oldestDel
    /\ lastAdd.gone = {lastAdd.leastUsed}

\* C8: the deleted-PID LRU never holds more than its capacity of entries.
C8_LruBounded == Len(PidDeleted) <= maxEntries

\* C8 witness: the LRU is full after an Add that overflowed it.
C8_Witness ==
    /\ Len(PidDeleted) = maxEntries
    /\ lastAdd.full /\ lastAdd.gone # {}
    /\ Cardinality(DOMAIN lastFilter) > maxEntries

\* C9: no GetProcInfo call changes the live map or the PIDs and records held
\* by the LRU; a hit in the LRU does not put the PID back into the live map.
C9_GetProcInfoKeepsMembership ==
    [][\A p \in SeqPids :
          GetProcInfoCall(p) =>
              /\ Pid2ProcInfo' = Pid2ProcInfo
              /\ LruContents(PidDeleted') = LruContents(PidDeleted)]_vars

\* C9 witness: a GetProcInfo that hit in the LRU and moved the entry to the
\* front, the PID still absent from the live map.
C9_Witness ==
    /\ LastRes.op = "GetProcInfo" /\ LastRes.ret
    /\ LastArg.pid \notin DOMAIN Pid2ProcInfo
    /\ Len(PidDeleted) >= 2
    /\ PidDeleted[1].key = LastArg.pid
    /\ delOrder[1] # LastArg.pid

\* C10: the LRU is touched and the live map written only by the goroutine
\* holding the exclusive lock, the live map is read only under the shared or
\* the exclusive lock, a GetProcInfo that hit the live map holds no lock when
\* it returns, and no two goroutines are at the LRU at once.
C10_LockDiscipline ==
    /\ \A t \in Threads :
          /\ pc[t] \in {"f_body", "d_body", "g_lru"}
                => rw.writer = t /\ rw.readers = {}
          /\ pc[t] = "g_probe" => t \in rw.readers /\ rw.writer = 0
          /\ pc[t] = "g_return" => rw.writer # t /\ t \notin rw.readers
    /\ \A t, u \in Threads :
          t # u => ~(pc[t] \in {"d_body", "g_lru"} /\ pc[u] \in {"d_body", "g_lru"})

\* C10 witness: one goroutine probes the LRU under the exclusive lock while
\* another waits for the lock to add to the LRU.
C10_Witness ==
    \E t, u \in Threads :
        /\ pc[t] = "g_lru" /\ rw.writer = t
        /\ pc[u] = "d_lock" /\ arg[u].pid \in DOMAIN Pid2ProcInfo

\* the record the last Filter call stored
LastStored == Pid2ProcInfo[LastArg.pid]
\* the positions of svc_assign_env whose variable env holds
AssignHits ==
    {i \in 1..Len(cfg.SvcAssignEnv) : cfg.SvcAssignEnv[i] \in DOMAIN LastArg.env}

\* C11: after every Filter call, admitted or not, the stored Name is the
\* process name and the stored Service is the env value of the first key of
\* svc_assign_env present in env, or the process name when there is none.
C11_ServiceAssignment ==
    LastRes.op = "Filter" =>
        /\ LastArg.pid \in DOMAIN Pid2ProcInfo
        /\ LastStored.Name = LastArg.name
        /\ AssignHits = {} => LastStored.Service = LastArg.name
        /\ \A i \in AssignHits :
              (\A j \in AssignHits : i <= j)
                  => LastStored.Service = LastArg.env[cfg.SvcAssignEnv[i]]

\* C11 witness: a call that is not admitted, env holding both variables of
\* svc_assign_env, the service taken from the first of the list.
C11_Witness ==
    /\ LastRes.op = "Filter" /\ ~LastRes.ret
    /\ Cardinality(AssignHits) = 2
    /\ cfg.SvcAssignEnv[1] = "OTEL_SERVICE_NAME"
    /\ LastStored.Service = "otel-svc"
    /\ LastStored.Name = LastArg.name

\* C19: Filter returns true, and stores the same value as AllowTrace, exactly
\* when disable is false, no deny rule matches and an admit condition holds
\* (an env key or the name of polarity true, the path in rule_path, or
\* any_process), whatever the order in which rule_env is ranged over.
C19_AdmissionFunction ==
    LastRes.op = "Filter" =>
        /\ LastRes.ret <=>
              /\ ~cfg.Disable
              /\ ~DenyMatches
              /\ AdmitMatches \/ LastArg.path \in cfg.RulePath \/ cfg.AnyProcess
        /\ LastArg.pid \in DOMAIN Pid2ProcInfo
        /\ LastStored.AllowTrace = LastRes.ret

\* C19 witness: a call admitted by the environment alone, with two rule
\* keys in env, so that the range loop can stop at either.
C19_Witness ==
    /\ LastRes.op = "Filter" /\ LastRes.ret
    /\ ~cfg.AnyProcess /\ LastArg.name \notin DOMAIN cfg.RuleProcessName
    /\ Cardinality(EnvFirstHits(cfg, LastArg.env)) = 2
    /\ LastStored.AllowTrace

\* C20: under fair scheduling every call of every goroutine returns, no
\* goroutine asks for the exclusive lock while it holds the shared lock, and
\* when no call is in progress nobody holds the lock.
C20_DeadlockFree ==
    /\ [](\A t \in Threads :
            pc[t] \in {"f_lock", "f_wait", "d_lock", "d_wait", "g_lock", "g_wait"}
                => t \notin rw.readers)
    /\ []((\A t \in Threads : pc[t] = "idle") => rw = FreeRWMutex)
    /\ \A t \in Threads : (pc[t] # "idle") ~> (pc[t] = "idle")

\* C20 witness: a GetProcInfo that missed the live map waits in Lock for the
\* reader to leave while another GetProcInfo holds the shared lock.
C20_Witness ==
    \E t, u \in Threads :
        /\ pc[t] = "g_wait" /\ rw.w = t /\ t \notin rw.readers
        /\ pc[u] = "g_probe" /\ u \in rw.readers

\* s is exactly n hex digits of either case
IsHexString(s, n) == Len(s) = n /\ \A i \in 1..Len(s) : FromHexChar(s[i]) <= 15

\* C12: HexTraceid2ID128 of a string that is not exactly the hex digits of
\* an ID128 (32 in the code) is {High: 0, Low: 0}, and HexSpanid2ID64 of a
\* string that is not exactly the hex digits of an ID64 (16) is 0.
C12_MalformedHexIsZero ==
    /\ LastRes.op = "HexTraceid2ID128" /\ ~IsHexString(LastArg.s, 4 * IdBytes)
          => LastRes.traceID = ZeroID128
    /\ LastRes.op = "HexSpanid2ID64" /\ ~IsHexString(LastArg.s, 2 * IdBytes)
          => LastRes.id = 0

\* s is one decimal digit or more
IsDigits(s) == s # <<>> /\ \A i \in 1..Len(s) : FromHexChar(s[i]) <= 9
\* the number the digits of s write, from n, no larger than Modulus
RECURSIVE Magnitude(_, _)
Magnitude(s, n) ==
    IF s = <<>> THEN n
    ELSE LET m == n * 10 + FromHexChar(s[1])
         IN  Magnitude(Tail(s), IF m > Modulus THEN Modulus ELSE m)
\* s is a decimal of digits only within the unsigned range, or '-' and
\* digits within the signed range
WellFormedDecimal(s) ==
    IF s # <<>> /\ s[1] = "-"
    THEN IsDigits(Tail(s)) /\ Magnitude(Tail(s), 0) <= -MinInt
    ELSE IsDigits(s) /\ Magnitude(s, 0) <= MaxUint

\* C13: DecTraceOrSpanid2ID64 of a string that is not a well-formed decimal
\* within range is 0.
C13_ParseFailureIsZero ==
    LastRes.op = "DecTraceOrSpanid2ID64" /\ ~WellFormedDecimal(LastArg.s)
        => LastRes.id = 0

\* s is n lower-case hex digits
IsLowerHex(s, n) ==
    Len(s) = n /\ \A i \in 1..Len(s) : \E d \in 1..16 : s[i] = HexTable[d]

\* C15: parsing the string FormatSpanID(x, base16) gave in the same base
\* gives x back, and in base 16 that string is exactly the lower-case hex
\* digits of an ID64 (16 in the code), the most significant byte first.
C15_SpanIDRoundTrip ==
    [][LastRes.op = "FormatSpanID" =>
          /\ LastRes'.id = LastArg.i
          /\ LastArg.base16 =>
                /\ IsLowerHex(LastRes.s, 2 * IdBytes)
                /\ 16 * FromHexChar(LastRes.s[1]) + FromHexChar(LastRes.s[2])
                       = LastArg.i \div (256 ^ (IdBytes - 1))]_vars

\* C15 witness: 00ff, the text of 255 with its zero padding and its most
\* significant byte first, parsed back to 255.
C15_Witness ==
    /\ LastRes.op = "HexSpanid2ID64"
    /\ Len(LastArg.s) = 2 * IdBytes
    /\ SubSeq(LastArg.s, 1, 2) = <<"0", "0">>
    /\ SubSeq(LastArg.s, Len(LastArg.s) - 1, Len(LastArg.s)) = <<"f", "f">>
    /\ LastRes.id = 255

\* s is '-' and the digits of a number from 1 to 2^63 (scaled: -MinInt)
IsNegativeText(s) ==
    /\ s # <<>> /\ s[1] = "-"
    /\ IsDigits(Tail(s))
    /\ Magnitude(Tail(s), 0) \in 1..(-MinInt)
\* n mod 2^64 (scaled: Modulus) for the negative n that s writes
BitPattern(s) == Modulus - Magnitude(Tail(s), 0)

\* C14: DecTraceOrSpanid2ID64 of the decimal text of a negative n within the
\* signed range is n mod 2^64, and GetTraceInfo of a header map whose
\* x-datadog-trace-id is that text gives trace_id.Low = n mod 2^64 and
\* trace_id.High = 0.
C14_SignedBitPattern ==
    /\ LastRes.op = "DecTraceOrSpanid2ID64" /\ IsNegativeText(LastArg.s)
          => LastRes.id = BitPattern(LastArg.s)
    /\ LastRes.op = "GetTraceInfo"
          /\ XDatadogTraceId \in DOMAIN LastArg.headers
          /\ IsNegativeText(LastArg.headers[XDatadogTraceId])
          => LastRes.out.traceID =
                 [Low  |-> BitPattern(LastArg.headers[XDatadogTraceId]),
                  High |-> 0]

\* C14 witness: x-datadog-trace-id "-1" gives Low = 2^64 - 1, all bits set.
C14_Witness ==
    /\ LastRes.op = "GetTraceInfo"
    /\ XDatadogTraceId \in DOMAIN LastArg.headers
    /\ LastArg.headers[XDatadogTraceId] = <<"-", "1">>
    /\ LastRes.out.traceID = [Low |-> MaxUint, High |-> 0]

\* the header map without traceparent
WithoutTraceparent(h) == [k \in DOMAIN h \ {Traceparent} |-> h[k]]

\* C17: with x-datadog-trace-id present the outputs come from the DataDog
\* headers only (hex_encoded false, High 0, parent 0 and sampled false when
\* their headers are absent, the same outputs with or without traceparent),
\* even when the value is malformed; traceparent is used only when
\* x-datadog-trace-id is absent and it splits into exactly four parts (then
\* hex_encoded is true); otherwise every output is zero or false.
C17_TracePrecedence ==
    LastRes.op = "GetTraceInfo" =>
        LET h == LastArg.headers
            out == LastRes.out
        IN  IF XDatadogTraceId \in DOMAIN h
            THEN /\ ~out.hexEnc /\ out.traceID.High = 0
                 /\ out.traceID.Low = DecTraceOrSpanid2ID64(h[XDatadogTraceId])
                 /\ XDatadogParentId \notin DOMAIN h => out.parentID = 0
                 /\ XDatadogSamplingPriority \notin DOMAIN h => ~out.sampled
                 /\ out = GetTraceInfo(WithoutTraceparent(h))
            ELSE IF Traceparent \in DOMAIN h /\ Len(Split(h[Traceparent], <<"-">>)) = 4
            THEN /\ out.hexEnc
                 /\ out.traceID = HexTraceid2ID128(Split(h[Traceparent], <<"-">>)[2])
                 /\ out.parentID = HexSpanid2ID64(Split(h[Traceparent], <<"-">>)[3])
            ELSE out = TraceInfo(FALSE, FALSE, ZeroID128, 0)

\* C17 witness: a malformed x-datadog-trace-id beside a traceparent of four
\* well-formed parts: the outputs are zero and hex_encoded is false.
C17_Witness ==
    /\ LastRes.op = "GetTraceInfo"
    /\ DOMAIN LastArg.headers = {XDatadogTraceId, Traceparent}
    /\ LastArg.headers[XDatadogTraceId] = <<"x">>
    /\ Len(Split(LastArg.headers[Traceparent], <<"-">>)) = 4
    /\ HexTraceid2ID128(Split(LastArg.headers[Traceparent], <<"-">>)[2]) # ZeroID128
    /\ LastRes.out = TraceInfo(FALSE, FALSE, ZeroID128, 0)


\* C16: GetHTTPHeader returns nil or a header map for every buffer, the
\* empty one and every truncation of a request among them; it never indexes
\* or slices out of range.
C16_NeverReadsPastBuffer ==
    res[Caller].op = "GetHTTPHeader" => res[Caller].kind \in {"nil", "map"}

\* the only buffer the parser panics on is the empty one
C16_PanicsOnlyOnEmpty ==
    res[Caller].op = "GetHTTPHeader" /\ res[Caller].kind = "panic"
        => arg[Caller].payload = <<>>

\* reached: a truncation of a request inside its header lines gives a map
C16_TruncatedGivesMap ==
    /\ res[Caller].op = "GetHTTPHeader"
    /\ res[Caller].kind = "map"
    /\ DOMAIN res[Caller].headers # {}
    /\ \E r \in Requests :
           arg[Caller].payload \in Prefixes(r) \ {r}
               /\ LastIndex(arg[Caller].payload, CRLF \o CRLF) < 0

ToLowerChar(c) ==
    IF \E i \in 1..26 : UpperLetters[i] = c
    THEN LowerLetters[CHOOSE i \in 1..26 : UpperLetters[i] = c] ELSE c
\* the payload with the name of every header line, the bytes from the start
\* of the line to its first colon, in lower case
RECURSIVE LowerNamesFrom(_, _, _)
LowerNamesFrom(s, i, inName) ==
    IF i > Len(s) THEN <<>>
    ELSE <<IF inName THEN ToLowerChar(s[i]) ELSE s[i]>>
             \o LowerNamesFrom(s, i + 1,
                    IF i > 1 /\ s[i - 1] = "\r" /\ s[i] = "\n" THEN TRUE
                    ELSE IF s[i] = ":" THEN FALSE ELSE inName)
LowerNames(payload) == LowerNamesFrom(payload, 1, FALSE)

\* C18: GetTraceInfo of the map GetHTTPHeader returns for a payload gives
\* the trace context it gives for the same payload with its header names
\* spelled in lower case.
C18_CaseInsensitiveNames ==
    res[Caller].op = "GetTraceInfo" /\ arg[Caller].op = "GetHTTPHeader" =>
        res[Caller].out =
            GetTraceInfo(GetHTTPHeader(LowerNames(arg[Caller].payload)).headers)

\* reached: the lower-case spelling of a whole request is recognised
C18_LowerCaseRecognised ==
    /\ res[Caller].op = "GetTraceInfo"
    /\ arg[Caller].op = "GetHTTPHeader"
    /\ arg[Caller].payload \in Requests
    /\ arg[Caller].payload = LowerNames(arg[Caller].payload)
    /\ res[Caller].out.hexEnc
    /\ res[Caller].out.parentID = 205
====
